---- MODULE Spec2Model ----
(***************************************************************************)
(* Block-cipher mode engines of himitsu: the ECB engines                   *)
(* (cipher/blockcipher/ecb.rs), the streaming CBC engines                  *)
(* (cipher/block/cbc/syncronous.rs), the Buffered Adapter                  *)
(* (cipher/block/buffered.rs) and the single-block CBC transform           *)
(* (blockcipher/cbc/syncronous.rs).                                        *)
(*                                                                         *)
(* One behaviour is one caller program.  `scenario` says which engine the  *)
(* caller constructed; every operation of that engine is one action.       *)
(* Bytes are u8 values; the bytes a caller offers are drawn from Bytes,    *)
(* the keys from 1..MaxKey.                                                *)
(***************************************************************************)
EXTENDS Integers, Sequences, FiniteSets, TLC

\* ------------------------------------------------------------- bounds
MaxLen == 6    \* bytes a caller writes in one behaviour
MaxKey == 2    \* the keys are 1..MaxKey

\* ---------------------------------------------------- program constants
BLOCKSIZE == 3      \* the const generic BLOCKSIZE (B) of every engine
ByteMod   == 256    \* u8

B == BLOCKSIZE

Min(a, b) == IF a <= b THEN a ELSE b

\* the byte values a caller offers
Bytes == {0, 1}
Keys  == 1..MaxKey

RECURSIVE SeqsOfLen(_)
SeqsOfLen(n) ==
  IF n = 0 THEN { <<>> }
  ELSE { Append(s, x) : s \in SeqsOfLen(n - 1), x \in Bytes }

\* every slice a caller can offer, of at most n bytes
Slices(n) == UNION { SeqsOfLen(k) : k \in 0..n }

\* &buf[from..] with from counted from 0
SliceFrom(buf, from) == SubSeq(buf, from + 1, Len(buf))

\* ------------------------------------------------------ xor of two u8
RECURSIVE XorByte(_, _)
XorByte(a, b) ==
  IF a = 0 THEN b
  ELSE IF b = 0 THEN a
  ELSE (((a % 2) + (b % 2)) % 2) + 2 * XorByte(a \div 2, b \div 2)

\* xor_buffers(a, b): a[i] ^= b[i]; the value left in a
xor_buffers(a, b) == [i \in 1..B |-> XorByte(a[i], b[i])]

\* ---------------------------------------------------------- FixedBuffer
\* A buffer is its B-byte array and its fill level.
FB_new == [buf |-> [i \in 1..B |-> 0], len |-> 0]

FB_is_full(fb)  == fb.len = B
FB_is_empty(fb) == fb.len = 0

\* bytes that still fit
FB_capacity(fb) == B - fb.len

\* push_slice: copies min(B - fill, data.len()) bytes; fb is the buffer
\* afterwards, n the count copied
FB_push_slice(fb, data) ==
  LET n == Min(B - fb.len, Len(data))
  IN  [fb |-> [buf |-> [i \in 1..B |->
                          IF i > fb.len /\ i <= fb.len + n
                          THEN data[i - fb.len] ELSE fb.buf[i]],
               len |-> fb.len + n],
       n  |-> n]

\* as_ref / as_mut: the B-byte array
FB_as_ref(fb) == fb.buf

\* FixedBuffer::from(block)
FB_from(block) == [buf |-> block, len |-> B]

\* override_contents(bytes, len)
FB_override_contents(fb, bytes, len) == [buf |-> bytes, len |-> len]

\* the bytes a buffer yields when it is appended to a Vec
FB_into_iter(fb) == SubSeq(fb.buf, 1, fb.len)

\* ------------------------------------------------- Primitive Capability
\* A keyed permutation of the B-byte blocks and its inverse: the block is
\* rotated by one byte and the key added to every byte.
PrimEncryptBlock(key, blk) ==
  [i \in 1..B |-> (blk[(i % B) + 1] + key) % ByteMod]

PrimDecryptBlock(key, blk) ==
  [j \in 1..B |-> (blk[((j + B - 2) % B) + 1] + ByteMod - key) % ByteMod]

\* a primitive is its direction and its key schedule
Primitive(dir, key) == [dir |-> dir, key |-> key]

\* T::mutate(block, None, None) of the ECB engines: the primitive's own
\* direction applied to the block
PrimMutate(p, blk) ==
  IF p.dir = "enc" THEN PrimEncryptBlock(p.key, blk)
  ELSE PrimDecryptBlock(p.key, blk)

\* encrypt(block, Some(iv), None): xor before the transform
PrimEncryptXorPre(p, blk, iv) == PrimEncryptBlock(p.key, xor_buffers(blk, iv))

\* decrypt(block, None, Some(iv)): xor after the transform
PrimDecryptXorPost(p, blk, iv) == xor_buffers(PrimDecryptBlock(p.key, blk), iv)

\* ------------------------------------------------------- return values
\* What an operation returned: ok or the error, the number carried
\* (bytes written, missing bytes; -1 for none), the output handed over;
\* `on` names the engine it was called on.
Ret(op, ok, err, val, out) ==
  [op |-> op, on |-> "", ok |-> ok, err |-> err, val |-> val, out |-> out,
   len |-> 0, diverged |-> FALSE, pushFull |-> FALSE]

\* write's return: len is buf.len(); diverged says the loop never ends;
\* pushFull says push_slice was called on a full buffer
RetWrite(val, len, diverged, pushFull) ==
  [op |-> "write", on |-> "", ok |-> ~diverged, err |-> "", val |-> val,
   out |-> <<>>,
   len |-> len, diverged |-> diverged, pushFull |-> pushFull]

NoRet == Ret("new", TRUE, "", -1, <<>>)

\* ----------------------------------------------------------- ECB engine
\* EcbEncryption and EcbDecryption are the same code over a primitive of
\* either direction: primitive, buffer, out.
Ecb_new(dir, key) ==
  [primitive |-> Primitive(dir, key), buffer |-> FB_new, out |-> <<>>]

\* Ecb_process_buffer with out replaced by the block instead of extended
Ecb_process_buffer_overwrites(e) ==
  LET transformed == [e.buffer EXCEPT !.buf = PrimMutate(e.primitive, e.buffer.buf)]
  IN  [e EXCEPT !.buffer = FB_new, !.out = FB_into_iter(transformed)]

Ecb_process_buffer(e) ==
  LET transformed == [e.buffer EXCEPT !.buf = PrimMutate(e.primitive, e.buffer.buf)]
  IN  [e EXCEPT !.buffer = FB_new,
                !.out = e.out \o FB_into_iter(transformed)]

\* Ecb_finalize with the error carrying the fill instead of capacity()
Ecb_finalize_reports_fill(e) ==
  IF FB_is_full(e.buffer)
  THEN LET e1 == Ecb_process_buffer(e)
       IN  [self |-> [e1 EXCEPT !.out = <<>>],
            ret  |-> Ret("finalize", TRUE, "", -1, e1.out)]
  ELSE [self |-> e,
        ret  |-> Ret("finalize", FALSE, "IncompleteBlock", e.buffer.len, <<>>)]

\* Ecb_finalize handing out a copy of out instead of replacing it
Ecb_finalize_keeps_out(e) ==
  IF FB_is_full(e.buffer)
  THEN LET e1 == Ecb_process_buffer(e)
       IN  [self |-> e1,
            ret  |-> Ret("finalize", TRUE, "", -1, e1.out)]
  ELSE [self |-> e,
        ret  |-> Ret("finalize", FALSE, "IncompleteBlock",
                     FB_capacity(e.buffer), <<>>)]

\* Ecb_finalize with the working buffer replaced on the error path too
Ecb_finalize_drops_partial(e) ==
  IF FB_is_full(e.buffer)
  THEN LET e1 == Ecb_process_buffer(e)
       IN  [self |-> [e1 EXCEPT !.out = <<>>],
            ret  |-> Ret("finalize", TRUE, "", -1, e1.out)]
  ELSE [self |-> [e EXCEPT !.buffer = FB_new],
        ret  |-> Ret("finalize", FALSE, "IncompleteBlock",
                     FB_capacity(e.buffer), <<>>)]

\* finalize(&mut self): a full buffer is processed and out handed over;
\* any other buffer is IncompleteBlock(capacity())
Ecb_finalize(e) ==
  IF FB_is_full(e.buffer)
  THEN LET e1 == Ecb_process_buffer(e)
       IN  [self |-> [e1 EXCEPT !.out = <<>>],
            ret  |-> Ret("finalize", TRUE, "", -1, e1.out)]
  ELSE [self |-> e,
        ret  |-> Ret("finalize", FALSE, "IncompleteBlock",
                     FB_capacity(e.buffer), <<>>)]

\* Ecb_write_loop with the is_full check after push_slice instead of
\* before it
RECURSIVE Ecb_write_loop_eager(_, _, _, _)
Ecb_write_loop_eager(e, buf, written, pushFull) ==
  IF ~(written < Len(buf))
  THEN [self |-> e, ret |-> RetWrite(written, Len(buf), FALSE, pushFull)]
  ELSE LET p  == FB_push_slice(e.buffer, SliceFrom(buf, written))
           e1 == [e EXCEPT !.buffer = p.fb]
           e2 == IF FB_is_full(e1.buffer) THEN Ecb_process_buffer(e1) ELSE e1
           pf == pushFull \/ FB_is_full(e.buffer)
       IN  IF p.n = 0 /\ e2 = e
           THEN [self |-> e2, ret |-> RetWrite(written, Len(buf), TRUE, pf)]
           ELSE Ecb_write_loop_eager(e2, buf, written + p.n, pf)

\* Ecb_write_loop without the is_full check before push_slice
RECURSIVE Ecb_write_loop_never_processes(_, _, _, _)
Ecb_write_loop_never_processes(e, buf, written, pushFull) ==
  IF ~(written < Len(buf))
  THEN [self |-> e, ret |-> RetWrite(written, Len(buf), FALSE, pushFull)]
  ELSE LET p  == FB_push_slice(e.buffer, SliceFrom(buf, written))
           e2 == [e EXCEPT !.buffer = p.fb]
           pf == pushFull \/ FB_is_full(e.buffer)
       IN  IF p.n = 0 /\ e2 = e
           THEN [self |-> e2, ret |-> RetWrite(written, Len(buf), TRUE, pf)]
           ELSE Ecb_write_loop_never_processes(e2, buf, written + p.n, pf)

\* the while loop of write, from `written` bytes consumed on.  An iteration
\* that consumes nothing and leaves the engine as it was repeats for ever.
RECURSIVE Ecb_write_loop(_, _, _, _)
Ecb_write_loop(e, buf, written, pushFull) ==
  IF ~(written < Len(buf))
  THEN [self |-> e, ret |-> RetWrite(written, Len(buf), FALSE, pushFull)]
  ELSE LET e1 == IF FB_is_full(e.buffer) THEN Ecb_process_buffer(e) ELSE e
           p  == FB_push_slice(e1.buffer, SliceFrom(buf, written))
           e2 == [e1 EXCEPT !.buffer = p.fb]
           pf == pushFull \/ FB_is_full(e1.buffer)
       IN  IF p.n = 0 /\ e2 = e
           THEN [self |-> e2, ret |-> RetWrite(written, Len(buf), TRUE, pf)]
           ELSE Ecb_write_loop(e2, buf, written + p.n, pf)

Ecb_write(e, buf) == Ecb_write_loop(e, buf, 0, FALSE)

Ecb_flush(e) == [self |-> e, ret |-> Ret("flush", TRUE, "", -1, <<>>)]

\* --------------------------------------------------- streaming CBC engine
\* primitive, buffer, iv, out; alive until finalize(self) consumes it.
\* Cbc_new without the push_slice of the caller's IV
Cbc_new_without_push(dir, key, iv) ==
  [primitive |-> Primitive(dir, key), buffer |-> FB_new,
   iv |-> FB_new, out |-> <<>>, alive |-> TRUE]

Cbc_new(dir, key, iv) ==
  [primitive |-> Primitive(dir, key), buffer |-> FB_new,
   iv |-> FB_push_slice(FB_new, iv).fb, out |-> <<>>, alive |-> TRUE]

\* CbcEncryption_process_buffer without the override_contents of the IV
CbcEncryption_process_buffer_keeps_iv(e) ==
  LET encrypted == [e.buffer EXCEPT !.buf =
                      PrimEncryptXorPre(e.primitive, e.buffer.buf, FB_as_ref(e.iv))]
  IN  [e EXCEPT !.buffer = FB_new,
                !.out = e.out \o FB_into_iter(encrypted)]

CbcEncryption_process_buffer(e) ==
  LET encrypted == [e.buffer EXCEPT !.buf =
                      PrimEncryptXorPre(e.primitive, e.buffer.buf, FB_as_ref(e.iv))]
  IN  [e EXCEPT !.buffer = FB_new,
                !.iv = FB_override_contents(e.iv, FB_as_ref(encrypted), encrypted.len),
                !.out = e.out \o FB_into_iter(encrypted)]

\* CbcDecryption_process_buffer with the next IV taken after the in-place
\* decrypt
CbcDecryption_process_buffer_late_iv(e) ==
  LET decrypted == [e.buffer EXCEPT !.buf =
                      PrimDecryptXorPost(e.primitive, e.buffer.buf, FB_as_ref(e.iv))]
      new_iv    == FB_from(FB_as_ref(decrypted))
  IN  [e EXCEPT !.buffer = FB_new,
                !.iv = new_iv,
                !.out = e.out \o FB_into_iter(decrypted)]

CbcDecryption_process_buffer(e) ==
  LET new_iv    == FB_from(FB_as_ref(e.buffer))
      decrypted == [e.buffer EXCEPT !.buf =
                      PrimDecryptXorPost(e.primitive, e.buffer.buf, FB_as_ref(e.iv))]
  IN  [e EXCEPT !.buffer = FB_new,
                !.iv = new_iv,
                !.out = e.out \o FB_into_iter(decrypted)]

Cbc_process_buffer(e) ==
  IF e.primitive.dir = "enc" THEN CbcEncryption_process_buffer(e)
  ELSE CbcDecryption_process_buffer(e)

\* finalize(self): the output, whatever the buffer holds
Cbc_finalize(e) ==
  [self |-> [e EXCEPT !.alive = FALSE],
   ret  |-> Ret("finalize", TRUE, "", -1, e.out)]

RECURSIVE Cbc_write_loop(_, _, _, _)
Cbc_write_loop(e, buf, written, pushFull) ==
  IF ~(written < Len(buf))
  THEN [self |-> e, ret |-> RetWrite(written, Len(buf), FALSE, pushFull)]
  ELSE LET p  == FB_push_slice(e.buffer, SliceFrom(buf, written))
           e1 == [e EXCEPT !.buffer = p.fb]
           e2 == IF FB_is_full(e1.buffer) THEN Cbc_process_buffer(e1) ELSE e1
           pf == pushFull \/ FB_is_full(e.buffer)
       IN  IF p.n = 0 /\ e2 = e
           THEN [self |-> e2, ret |-> RetWrite(written, Len(buf), TRUE, pf)]
           ELSE Cbc_write_loop(e2, buf, written + p.n, pf)

Cbc_write(e, buf) == Cbc_write_loop(e, buf, 0, FALSE)

\* flush: an error unless the buffer is full
Cbc_flush(e) ==
  IF ~FB_is_full(e.buffer)
  THEN [self |-> e,
        ret  |-> Ret("flush", FALSE, "UnexpectedEof:IncompleteBlock",
                     FB_capacity(e.buffer), <<>>)]
  ELSE [self |-> e, ret |-> Ret("flush", TRUE, "", -1, <<>>)]

\* ------------------------------------------- single-block CBC transform
\* blockcipher/cbc: a cipher the adapter can wrap.  A wrapped cipher is
\* mode "prim" (the stateless primitive) or mode "cbc" (primitive and iv).
Cipher(mode, dir, key, iv) ==
  [mode |-> mode, primitive |-> Primitive(dir, key), iv |-> iv]

\* CbcBlock_encrypt with the result written to data only, the iv left as
\* it was
CbcBlock_encrypt_keeps_iv(c, data) ==
  LET iv1 == xor_buffers(c.iv, data)
      iv2 == PrimEncryptBlock(c.primitive.key, iv1)
  IN  [cipher |-> c, data |-> iv2]

\* CbcEncryption::encrypt: iv ^= data; primitive.encrypt(iv); data = iv
CbcBlock_encrypt(c, data) ==
  LET iv1 == xor_buffers(c.iv, data)
      iv2 == PrimEncryptBlock(c.primitive.key, iv1)
  IN  [cipher |-> [c EXCEPT !.iv = iv2], data |-> iv2]

\* CbcDecryption::decrypt: new_iv = data; primitive.decrypt(data);
\* data ^= iv; iv = new_iv
CbcBlock_decrypt(c, data) ==
  LET new_iv == data
      d1     == PrimDecryptBlock(c.primitive.key, data)
      d2     == xor_buffers(d1, c.iv)
  IN  [cipher |-> [c EXCEPT !.iv = new_iv], data |-> d2]

\* BlockCipherEncryption::encrypt / BlockCipherDecryption::decrypt of the
\* wrapped cipher
Cipher_encrypt(c, data) ==
  IF c.mode = "cbc" THEN CbcBlock_encrypt(c, data)
  ELSE [cipher |-> c, data |-> PrimEncryptBlock(c.primitive.key, data)]

Cipher_decrypt(c, data) ==
  IF c.mode = "cbc" THEN CbcBlock_decrypt(c, data)
  ELSE [cipher |-> c, data |-> PrimDecryptBlock(c.primitive.key, data)]

\* ------------------------------------------------------ Buffered Adapter
\* BufferedCipherEncryption / BufferedCipherDecryption: cipher, buffer, out.
Buffered_new(cipher) ==
  [cipher |-> cipher, buffer |-> FB_new, out |-> <<>>, alive |-> TRUE]

\* Buffered_missing without the is_empty check
Buffered_missing_when_empty(a) ==
  IF ~FB_is_full(a.buffer)
  THEN [self |-> a, ret |-> Ret("missing", TRUE, "", FB_capacity(a.buffer), <<>>)]
  ELSE [self |-> a, ret |-> Ret("missing", TRUE, "", -1, <<>>)]

Buffered_missing(a) ==
  IF ~FB_is_full(a.buffer) /\ ~FB_is_empty(a.buffer)
  THEN [self |-> a, ret |-> Ret("missing", TRUE, "", FB_capacity(a.buffer), <<>>)]
  ELSE [self |-> a, ret |-> Ret("missing", TRUE, "", -1, <<>>)]

\* extract() hands the block over and leaves the buffer empty
Buffered_process_buffer(a) ==
  LET buf == FB_as_ref(a.buffer)
      r   == IF a.cipher.primitive.dir = "enc"
             THEN Cipher_encrypt(a.cipher, buf)
             ELSE Cipher_decrypt(a.cipher, buf)
  IN  [a EXCEPT !.buffer = FB_new, !.cipher = r.cipher, !.out = a.out \o r.data]

Buffered_finalize(a) ==
  [self |-> [a EXCEPT !.alive = FALSE],
   ret  |-> Ret("finalize", TRUE, "", -1, a.out)]

Buffered_finalize_and_reset(a) ==
  [self |-> [a EXCEPT !.buffer = FB_new, !.out = <<>>],
   ret  |-> Ret("finalize_and_reset", TRUE, "", -1, a.out)]

RECURSIVE Buffered_write_loop(_, _, _, _)
Buffered_write_loop(a, buf, written, pushFull) ==
  IF ~(written # Len(buf))
  THEN [self |-> a, ret |-> RetWrite(written, Len(buf), FALSE, pushFull)]
  ELSE LET p  == FB_push_slice(a.buffer, SliceFrom(buf, written))
           a1 == [a EXCEPT !.buffer = p.fb]
           a2 == IF FB_is_full(a1.buffer) THEN Buffered_process_buffer(a1) ELSE a1
           pf == pushFull \/ FB_is_full(a.buffer)
       IN  IF p.n = 0 /\ a2 = a
           THEN [self |-> a2, ret |-> RetWrite(written, Len(buf), TRUE, pf)]
           ELSE Buffered_write_loop(a2, buf, written + p.n, pf)

\* Buffered_write with `if` for `while`: one push_slice per call
Buffered_write_once(a, buf) ==
  IF Len(buf) = 0
  THEN [self |-> a, ret |-> RetWrite(0, 0, FALSE, FALSE)]
  ELSE LET p  == FB_push_slice(a.buffer, buf)
           a1 == [a EXCEPT !.buffer = p.fb]
           a2 == IF FB_is_full(a1.buffer) THEN Buffered_process_buffer(a1) ELSE a1
       IN  [self |-> a2,
            ret  |-> RetWrite(p.n, Len(buf), FALSE, FB_is_full(a.buffer))]

Buffered_write(a, buf) == Buffered_write_loop(a, buf, 0, FALSE)

Buffered_flush(a) == [self |-> a, ret |-> Ret("flush", TRUE, "", -1, <<>>)]

\* ---------------------------------------------------------------- state
VARIABLES
  scenario,   \* the engine(s) the caller constructed
  ecb,        \* the ECB engine
  cbcEnc,     \* the streaming CbcEncryption
  cbcDec,     \* the streaming CbcDecryption
  buffered,   \* the Buffered Adapter
  readable,   \* the Readable that CbcEncryption::finalize handed over
  ret,        \* what the last operation returned
  written,    \* history: the bytes written to each engine in its current stream
  closed,     \* history: the stream the last successful finalize closed
  made,       \* history: the key, the IV, the adapter as constructed, and
              \* the adapter as it was when its current stream began
  total,      \* history: bytes the caller has offered so far
  b64         \* the base64 call in progress: its input and its result

vars == <<scenario, ecb, cbcEnc, cbcDec, buffered, readable, ret,
          written, closed, made, total, b64>>

\* an engine the caller did not construct
NoEngine == [alive |-> FALSE]

NoReadable == [some |-> FALSE, data |-> <<>>, pos |-> 0]

\* no base64 call is in progress
NoB64 == [op |-> "none"]

\* the B-byte IVs a caller supplies
IVs == { [i \in 1..B |-> (v + i - 1) % ByteMod] : v \in Bytes }

ZeroBlock == [i \in 1..B |-> 0]

NoneWritten == [ecb |-> <<>>, enc |-> <<>>, dec |-> <<>>, buf |-> <<>>]

Init ==
  /\ \E key \in Keys, iv \in IVs :
       \/ \E dir \in {"enc", "dec"} :
            /\ scenario = "ecb"
            /\ ecb = Ecb_new(dir, key)
            /\ cbcEnc = NoEngine /\ cbcDec = NoEngine /\ buffered = NoEngine
            /\ made = [key |-> key, iv |-> ZeroBlock, adapter |-> NoEngine,
                       start |-> NoEngine]
       \/ /\ scenario = "cbc"
          /\ cbcEnc = Cbc_new("enc", key, iv)
          /\ cbcDec = Cbc_new("dec", key, iv)
          /\ ecb = NoEngine /\ buffered = NoEngine
          /\ made = [key |-> key, iv |-> iv, adapter |-> NoEngine,
                     start |-> NoEngine]
       \/ /\ scenario = "cbcDec"
          /\ cbcDec = Cbc_new("dec", key, iv)
          /\ ecb = NoEngine /\ cbcEnc = NoEngine /\ buffered = NoEngine
          /\ made = [key |-> key, iv |-> iv, adapter |-> NoEngine,
                     start |-> NoEngine]
       \/ \E dir \in {"enc", "dec"} :
            \/ /\ scenario = "buffered"
               /\ buffered = Buffered_new(Cipher("prim", dir, key, ZeroBlock))
               /\ ecb = NoEngine /\ cbcEnc = NoEngine /\ cbcDec = NoEngine
               /\ made = [key |-> key, iv |-> ZeroBlock, adapter |-> buffered,
                          start |-> buffered]
            \/ /\ scenario = "buffered"
               /\ buffered = Buffered_new(Cipher("cbc", dir, key, iv))
               /\ ecb = NoEngine /\ cbcEnc = NoEngine /\ cbcDec = NoEngine
               /\ made = [key |-> key, iv |-> iv, adapter |-> buffered,
                          start |-> buffered]
  /\ readable = NoReadable
  /\ ret = NoRet
  /\ written = NoneWritten
  /\ closed = <<>>
  /\ total = 0
  /\ b64 = NoB64

On(r, who) == [r EXCEPT !.on = who]

\* ---------------------------------------------------------- ECB actions
EcbWrite ==
  /\ scenario = "ecb"
  /\ \E buf \in Slices(MaxLen - total) :
       LET r == Ecb_write(ecb, buf)
       IN  /\ ecb' = r.self
           /\ ret' = On(r.ret, "ecb")
           /\ written' = [written EXCEPT !.ecb = @ \o buf]
           /\ total' = total + Len(buf)
  /\ closed' = <<>>
  /\ UNCHANGED <<b64, scenario, cbcEnc, cbcDec, buffered, readable, made>>

EcbFinalize ==
  /\ scenario = "ecb"
  /\ LET r == Ecb_finalize(ecb)
     IN  /\ ecb' = r.self
         /\ ret' = On(r.ret, "ecb")
         /\ written' = IF r.ret.ok THEN [written EXCEPT !.ecb = <<>>] ELSE written
         /\ closed' = IF r.ret.ok THEN written.ecb ELSE closed
  /\ UNCHANGED <<b64, scenario, cbcEnc, cbcDec, buffered, readable, made, total>>

EcbFlush ==
  /\ scenario = "ecb"
  /\ LET r == Ecb_flush(ecb)
     IN  ecb' = r.self /\ ret' = On(r.ret, "ecb")
  /\ UNCHANGED <<b64, scenario, cbcEnc, cbcDec, buffered, readable, written,
                 closed, made, total>>

NextEcb == EcbWrite \/ EcbFinalize \/ EcbFlush

\* ------------------------------------------------ streaming CBC actions
CbcEncWrite ==
  /\ scenario = "cbc" /\ cbcEnc.alive
  /\ \E buf \in Slices(MaxLen - total) :
       LET r == Cbc_write(cbcEnc, buf)
       IN  /\ cbcEnc' = r.self
           /\ ret' = On(r.ret, "enc")
           /\ written' = [written EXCEPT !.enc = @ \o buf]
           /\ total' = total + Len(buf)
  /\ UNCHANGED <<b64, scenario, ecb, cbcDec, buffered, readable, closed, made>>

CbcEncFlush ==
  /\ scenario = "cbc" /\ cbcEnc.alive
  /\ LET r == Cbc_flush(cbcEnc)
     IN  cbcEnc' = r.self /\ ret' = On(r.ret, "enc")
  /\ UNCHANGED <<b64, scenario, ecb, cbcDec, buffered, readable, written,
                 closed, made, total>>

\* finalize consumes the engine; the caller keeps the Readable
CbcEncFinalize ==
  /\ scenario \in {"cbc", "encBlocks"} /\ cbcEnc.alive
  /\ LET r == Cbc_finalize(cbcEnc)
     IN  /\ cbcEnc' = r.self
         /\ ret' = On(r.ret, "enc")
         /\ readable' = [some |-> TRUE, data |-> r.ret.out, pos |-> 0]
  /\ UNCHANGED <<b64, scenario, ecb, cbcDec, buffered, written, closed, made, total>>

\* the caller writes bytes of its own to a CbcDecryption
CbcDecWrite ==
  /\ scenario = "cbcDec" /\ cbcDec.alive
  /\ \E buf \in Slices(MaxLen - total) :
       LET r == Cbc_write(cbcDec, buf)
       IN  /\ cbcDec' = r.self
           /\ ret' = On(r.ret, "dec")
           /\ written' = [written EXCEPT !.dec = @ \o buf]
           /\ total' = total + Len(buf)
  /\ UNCHANGED <<b64, scenario, ecb, cbcEnc, buffered, readable, closed, made>>

\* the caller reads the next n bytes of the ciphertext and writes them to
\* the CbcDecryption
CbcDecWriteCiphertext ==
  /\ scenario = "cbc" /\ cbcDec.alive /\ readable.some
  /\ \E n \in 0..(Len(readable.data) - readable.pos) :
       LET buf == SubSeq(readable.data, readable.pos + 1, readable.pos + n)
           r   == Cbc_write(cbcDec, buf)
       IN  /\ cbcDec' = r.self
           /\ ret' = On(r.ret, "dec")
           /\ written' = [written EXCEPT !.dec = @ \o buf]
           /\ readable' = [readable EXCEPT !.pos = @ + n]
  /\ UNCHANGED <<b64, scenario, ecb, cbcEnc, buffered, closed, made, total>>

CbcDecFlush ==
  /\ scenario \in {"cbc", "cbcDec"} /\ cbcDec.alive
  /\ LET r == Cbc_flush(cbcDec)
     IN  cbcDec' = r.self /\ ret' = On(r.ret, "dec")
  /\ UNCHANGED <<b64, scenario, ecb, cbcEnc, buffered, readable, written,
                 closed, made, total>>

CbcDecFinalize ==
  /\ scenario \in {"cbc", "cbcDec", "decBlocks"} /\ cbcDec.alive
  /\ LET r == Cbc_finalize(cbcDec)
     IN  cbcDec' = r.self /\ ret' = On(r.ret, "dec")
  /\ UNCHANGED <<b64, scenario, ecb, cbcEnc, buffered, readable, written,
                 closed, made, total>>

NextCbc ==
  \/ CbcEncWrite \/ CbcEncFlush \/ CbcEncFinalize
  \/ CbcDecWrite \/ CbcDecWriteCiphertext \/ CbcDecFlush \/ CbcDecFinalize

\* --------------------------------------------- Buffered Adapter actions
BufferedWrite ==
  /\ scenario = "buffered" /\ buffered.alive
  /\ \E buf \in Slices(MaxLen - total) :
       LET r == Buffered_write(buffered, buf)
       IN  /\ buffered' = r.self
           /\ ret' = On(r.ret, "buf")
           /\ written' = [written EXCEPT !.buf = @ \o buf]
           /\ total' = total + Len(buf)
  /\ closed' = <<>>
  /\ UNCHANGED <<b64, scenario, ecb, cbcEnc, cbcDec, readable, made>>

BufferedFlush ==
  /\ scenario = "buffered" /\ buffered.alive
  /\ LET r == Buffered_flush(buffered)
     IN  buffered' = r.self /\ ret' = On(r.ret, "buf")
  /\ UNCHANGED <<b64, scenario, ecb, cbcEnc, cbcDec, readable, written,
                 closed, made, total>>

BufferedMissing ==
  /\ scenario = "buffered" /\ buffered.alive
  /\ LET r == Buffered_missing(buffered)
     IN  buffered' = r.self /\ ret' = On(r.ret, "buf")
  /\ UNCHANGED <<b64, scenario, ecb, cbcEnc, cbcDec, readable, written,
                 closed, made, total>>

BufferedFinalize ==
  /\ scenario = "buffered" /\ buffered.alive
  /\ LET r == Buffered_finalize(buffered)
     IN  buffered' = r.self /\ ret' = On(r.ret, "buf")
  /\ closed' = written.buf
  /\ UNCHANGED <<b64, scenario, ecb, cbcEnc, cbcDec, readable, written,
                 made, total>>

BufferedFinalizeAndReset ==
  /\ scenario = "buffered" /\ buffered.alive
  /\ LET r == Buffered_finalize_and_reset(buffered)
     IN  /\ buffered' = r.self
         /\ ret' = On(r.ret, "buf")
         /\ made' = [made EXCEPT !.start = r.self]
  /\ closed' = written.buf
  /\ written' = [written EXCEPT !.buf = <<>>]
  /\ UNCHANGED <<b64, scenario, ecb, cbcEnc, cbcDec, readable, total>>

NextBuffered ==
  \/ BufferedWrite \/ BufferedFlush \/ BufferedMissing
  \/ BufferedFinalize \/ BufferedFinalizeAndReset

\* -------------------------------------------------------- specifications
Next == NextEcb \/ NextCbc \/ NextBuffered

Spec == Init /\ [][Next]_vars

InitEcb == Init /\ scenario = "ecb"
SpecEcb == InitEcb /\ [][NextEcb]_vars

InitCbc == Init /\ scenario \in {"cbc", "cbcDec"}
SpecCbc == InitCbc /\ [][NextCbc]_vars

InitBuffered == Init /\ scenario = "buffered"
SpecBuffered == InitBuffered /\ [][NextBuffered]_vars

\* ------------------------------------- streaming CBC, whole-block writes
\* streams of up to MaxBlocks blocks: every write hands over one block.
MaxBlocks == 3

\* the blocks a caller writes
Blocks == { [i \in 1..B |-> v] : v \in {0, ByteMod - 1} }
            \cup { [i \in 1..B |-> (v + i - 1) % ByteMod] : v \in Bytes }

InitCbcBlocks ==
  /\ \E key \in Keys, iv \in IVs \cup {ZeroBlock} :
       /\ made = [key |-> key, iv |-> iv, adapter |-> NoEngine,
                  start |-> NoEngine]
       /\ \/ /\ scenario = "encBlocks"
             /\ cbcEnc = Cbc_new("enc", key, iv)
             /\ cbcDec = NoEngine
          \/ /\ scenario = "decBlocks"
             /\ cbcDec = Cbc_new("dec", key, iv)
             /\ cbcEnc = NoEngine
  /\ ecb = NoEngine /\ buffered = NoEngine
  /\ readable = NoReadable
  /\ ret = NoRet
  /\ written = NoneWritten
  /\ closed = <<>>
  /\ total = 0
  /\ b64 = NoB64

CbcEncWriteBlock ==
  /\ scenario = "encBlocks" /\ cbcEnc.alive
  /\ total < MaxBlocks * B
  /\ \E buf \in Blocks :
       LET r == Cbc_write(cbcEnc, buf)
       IN  /\ cbcEnc' = r.self
           /\ ret' = On(r.ret, "enc")
           /\ written' = [written EXCEPT !.enc = @ \o buf]
           /\ total' = total + Len(buf)
  /\ UNCHANGED <<b64, scenario, ecb, cbcDec, buffered, readable, closed, made>>

CbcDecWriteBlock ==
  /\ scenario = "decBlocks" /\ cbcDec.alive
  /\ total < MaxBlocks * B
  /\ \E buf \in Blocks :
       LET r == Cbc_write(cbcDec, buf)
       IN  /\ cbcDec' = r.self
           /\ ret' = On(r.ret, "dec")
           /\ written' = [written EXCEPT !.dec = @ \o buf]
           /\ total' = total + Len(buf)
  /\ UNCHANGED <<b64, scenario, ecb, cbcEnc, buffered, readable, closed, made>>

NextCbcBlocks ==
  \/ CbcEncWriteBlock \/ CbcEncFinalize
  \/ CbcDecWriteBlock \/ CbcDecFinalize

SpecCbcBlocks == InitCbcBlocks /\ [][NextCbcBlocks]_vars

\* ---------------------------------- streaming CBC, IV slices of any length
\* the IV slices a caller passes to new: every length from 0 to B + 1,
\* no byte of them zero
IVSlices == { [i \in 1..len |-> i] : len \in 0..(B + 1) }

InitCbcIv ==
  /\ \E key \in Keys, iv \in IVSlices :
       /\ made = [key |-> key, iv |-> iv, adapter |-> NoEngine,
                  start |-> NoEngine]
       /\ cbcDec = Cbc_new("dec", key, iv)
       /\ \/ /\ scenario = "cbc"
             /\ cbcEnc = Cbc_new("enc", key, iv)
          \/ /\ scenario = "cbcDec"
             /\ cbcEnc = NoEngine
  /\ ecb = NoEngine /\ buffered = NoEngine
  /\ readable = NoReadable
  /\ ret = NoRet
  /\ written = NoneWritten
  /\ closed = <<>>
  /\ total = 0
  /\ b64 = NoB64

SpecCbcIv == InitCbcIv /\ [][NextCbc]_vars

\* ----------------------- the adapter over single-block CBC and the engine
\* the caller drives a Buffered Adapter over the single-block CBC transform
\* and a streaming CBC engine of the same key, IV and direction with the
\* same calls
InitCbcBoth ==
  /\ scenario = "both"
  /\ \E key \in Keys, iv \in IVs :
       /\ \/ /\ buffered = Buffered_new(Cipher("cbc", "enc", key, iv))
             /\ cbcEnc = Cbc_new("enc", key, iv)
             /\ cbcDec = NoEngine
          \/ /\ buffered = Buffered_new(Cipher("cbc", "dec", key, iv))
             /\ cbcDec = Cbc_new("dec", key, iv)
             /\ cbcEnc = NoEngine
       /\ made = [key |-> key, iv |-> iv, adapter |-> buffered,
                  start |-> buffered]
  /\ ecb = NoEngine
  /\ readable = NoReadable
  /\ ret = NoRet
  /\ written = NoneWritten
  /\ closed = <<>>
  /\ total = 0
  /\ b64 = NoB64

\* the streaming engine of this run
Streaming == IF buffered.cipher.primitive.dir = "enc" THEN cbcEnc ELSE cbcDec

\* the same slice is written to both
BothWrite ==
  /\ scenario = "both" /\ buffered.alive
  /\ \E buf \in Slices(MaxLen - total) :
       LET ra == Buffered_write(buffered, buf)
           rs == Cbc_write(Streaming, buf)
       IN  /\ buffered' = ra.self
           /\ IF buffered.cipher.primitive.dir = "enc"
              THEN cbcEnc' = rs.self /\ cbcDec' = cbcDec
              ELSE cbcDec' = rs.self /\ cbcEnc' = cbcEnc
           /\ ret' = On(ra.ret, "buf")
           /\ written' = [written EXCEPT !.buf = @ \o buf]
           /\ total' = total + Len(buf)
  /\ UNCHANGED <<b64, scenario, ecb, readable, closed, made>>

\* both are finalized: ret is what the adapter returned, readable what the
\* engine returned
BothFinalize ==
  /\ scenario = "both" /\ buffered.alive
  /\ LET ra == Buffered_finalize(buffered)
         rs == Cbc_finalize(Streaming)
     IN  /\ buffered' = ra.self
         /\ IF buffered.cipher.primitive.dir = "enc"
            THEN cbcEnc' = rs.self /\ cbcDec' = cbcDec
            ELSE cbcDec' = rs.self /\ cbcEnc' = cbcEnc
         /\ ret' = On(ra.ret, "buf")
         /\ readable' = [some |-> TRUE, data |-> rs.ret.out, pos |-> 0]
  /\ closed' = written.buf
  /\ UNCHANGED <<b64, scenario, ecb, written, made, total>>

NextCbcBoth == BothWrite \/ BothFinalize

SpecCbcBoth == InitCbcBoth /\ [][NextCbcBoth]_vars

\* ----------------------------------------------------------------- base64
\* A char is its code point, a string the sequence of its chars.
\* u8 operators
RECURSIVE BitAnd(_, _)
BitAnd(a, b) ==
  IF a = 0 \/ b = 0 THEN 0
  ELSE ((a % 2) * (b % 2)) + 2 * BitAnd(a \div 2, b \div 2)

RECURSIVE BitOr(_, _)
BitOr(a, b) ==
  IF a = 0 THEN b
  ELSE IF b = 0 THEN a
  ELSE (IF a % 2 = 1 \/ b % 2 = 1 THEN 1 ELSE 0)
         + 2 * BitOr(a \div 2, b \div 2)

\* x << n on a u8: the bits shifted out are lost
Shl(x, n) == (x * (2 ^ n)) % ByteMod

Shr(x, n) == x \div (2 ^ n)

\* 'A'..'Z', 'a'..'z', '0'..'9', then '+' '/' or '-' '_'
B64_CHARS ==
  [i \in 1..26 |-> 64 + i] \o [i \in 1..26 |-> 96 + i]
    \o [i \in 1..10 |-> 47 + i] \o <<43, 47>>

B64_URL_CHARS ==
  [i \in 1..26 |-> 64 + i] \o [i \in 1..26 |-> 96 + i]
    \o [i \in 1..10 |-> 47 + i] \o <<45, 95>>

\* '='
PADDING == 61

Kinds == {"Basic", "UrlSafe"}

\* Kind::value_at with the Basic table for both kinds
value_at_basic_only(kind, ix) == B64_CHARS[ix + 1]

value_at(kind, ix) ==
  IF kind = "Basic" THEN B64_CHARS[ix + 1] ELSE B64_URL_CHARS[ix + 1]

Some(v) == [some |-> TRUE, v |-> v]
None == [some |-> FALSE, v |-> 0]

\* Kind::is_b64 accepting the last two chars of both tables in both kinds
is_b64_either_table(kind, c) ==
  IF 65 <= c /\ c <= 90 THEN Some(c - 65)
  ELSE IF 97 <= c /\ c <= 122 THEN Some((c - 97) + 26)
  ELSE IF 48 <= c /\ c <= 57 THEN Some((c - 48) + 52)
  ELSE IF c = 43 \/ c = 45 THEN Some(62)
  ELSE IF c = 47 \/ c = 95 THEN Some(63)
  ELSE None

\* Kind::is_b64: the index of c in the table of the kind, if it has one
is_b64(kind, c) ==
  IF 65 <= c /\ c <= 90 THEN Some(c - 65)
  ELSE IF 97 <= c /\ c <= 122 THEN Some((c - 97) + 26)
  ELSE IF 48 <= c /\ c <= 57 THEN Some((c - 48) + 52)
  ELSE IF kind = "Basic"
       THEN IF c = 43 THEN Some(62) ELSE IF c = 47 THEN Some(63) ELSE None
       ELSE IF c = 45 THEN Some(62) ELSE IF c = 95 THEN Some(63) ELSE None

\* the chunks_exact(3) loop of base64_encode and the remainder after it
RECURSIVE EncodeChunks(_, _)
EncodeChunks(kind, bytes) ==
  IF Len(bytes) >= 3
  THEN LET ia == Shr(bytes[1], 2)
           ib == BitOr(Shl(BitAnd(bytes[1], 3), 4), Shr(BitAnd(bytes[2], 240), 4))
           ic == BitOr(Shl(BitAnd(bytes[2], 15), 2), Shr(BitAnd(bytes[3], 192), 6))
           id == BitAnd(bytes[3], 63)
       IN  <<value_at(kind, ia), value_at(kind, ib),
             value_at(kind, ic), value_at(kind, id)>>
             \o EncodeChunks(kind, SubSeq(bytes, 4, Len(bytes)))
  ELSE IF Len(bytes) = 1
  THEN LET ia == Shr(bytes[1], 2)
           ib == Shl(BitAnd(bytes[1], 3), 4)
       IN  <<value_at(kind, ia), value_at(kind, ib), PADDING, PADDING>>
  ELSE IF Len(bytes) = 2
  THEN LET ia == Shr(bytes[1], 2)
           ib == BitOr(Shl(BitAnd(bytes[1], 3), 4), Shr(BitAnd(bytes[2], 240), 4))
           ic == Shl(BitAnd(bytes[2], 15), 2)
       IN  <<value_at(kind, ia), value_at(kind, ib), value_at(kind, ic), PADDING>>
  ELSE <<>>

base64_encode(kind, bytes) ==
  IF bytes = <<>> THEN <<>> ELSE EncodeChunks(kind, bytes)

\* the bytes of the whole chunks of four indices, then of the remainder
RECURSIVE DecodeChunks(_)
DecodeChunks(filtered) ==
  IF Len(filtered) >= 4
  THEN << BitOr(Shl(filtered[1], 2), Shr(filtered[2], 4)),
          BitOr(Shl(filtered[2], 4), Shr(filtered[3], 2)),
          BitOr(Shl(filtered[3], 6), filtered[4]) >>
         \o DecodeChunks(SubSeq(filtered, 5, Len(filtered)))
  ELSE IF Len(filtered) = 2
  THEN << BitOr(Shl(filtered[1], 2), Shr(filtered[2], 4)) >>
  ELSE IF Len(filtered) = 3
  THEN << BitOr(Shl(filtered[1], 2), Shr(filtered[2], 4)),
          BitOr(Shl(filtered[2], 4), Shr(filtered[3], 2)) >>
  ELSE <<>>

decode_core(filtered) ==
  IF Len(filtered) % 4 \in {0, 2, 3}
  THEN Ret("decode", TRUE, "", -1, DecodeChunks(filtered))
  ELSE Ret("decode", FALSE, "InvalidFormat", Len(filtered) % 4, <<>>)

\* the bytes of the UTF-8 encoding of a char
Utf8Len(c) ==
  IF c < 128 THEN 1 ELSE IF c < 2048 THEN 2 ELSE IF c < 65536 THEN 3 ELSE 4

\* str::len: the length in bytes
RECURSIVE StrLen(_)
StrLen(string) ==
  IF string = <<>> THEN 0 ELSE Utf8Len(Head(string)) + StrLen(Tail(string))

\* string.chars().filter_map(|c| kind.is_b64(c)).collect()
RECURSIVE FilterMap(_, _)
FilterMap(kind, string) ==
  IF string = <<>> THEN <<>>
  ELSE LET x == is_b64(kind, Head(string))
       IN  (IF x.some THEN <<x.v>> ELSE <<>>) \o FilterMap(kind, Tail(string))

\* base64_decode with the length check made on the filtered indices
base64_decode_checks_filtered(kind, string) ==
  LET filtered == FilterMap(kind, string)
  IN  IF Len(filtered) % 4 # 0
      THEN Ret("decode", FALSE, "InvalidInputLength", Len(filtered), <<>>)
      ELSE decode_core(filtered)

base64_decode(kind, string) ==
  IF StrLen(string) % 4 # 0
  THEN Ret("decode", FALSE, "InvalidInputLength", StrLen(string), <<>>)
  ELSE decode_core(FilterMap(kind, string))

\* ---------------------------------------------------------- base64 calls
MaxBytes == 4
MaxText == 7

\* the bytes a caller encodes: 0, 'a', and two that give the indices 62, 63
ByteSamples == {0, 97, 251, 255}

\* the chars of the strings a caller decodes: 'A', '/', '=' and the
\* two-byte char U+00E9
Chars == {65, 47, 61, 233}

SeqsOver(S, n) == UNION { [1..k -> S] : k \in 0..n }

InitBase64 ==
  /\ scenario = "base64"
  /\ \E kind \in Kinds :
       \/ \E bytes \in SeqsOver(ByteSamples, MaxBytes) :
            b64 = [op |-> "new", kind |-> kind, from |-> "bytes",
                   bytes |-> bytes, text |-> <<>>]
       \/ \E text \in SeqsOver(Chars, MaxText) :
            b64 = [op |-> "new", kind |-> kind, from |-> "text",
                   bytes |-> <<>>, text |-> text]
  /\ ecb = NoEngine /\ cbcEnc = NoEngine /\ cbcDec = NoEngine
  /\ buffered = NoEngine
  /\ made = [key |-> 1, iv |-> ZeroBlock, adapter |-> NoEngine,
             start |-> NoEngine]
  /\ readable = NoReadable
  /\ ret = NoRet
  /\ written = NoneWritten
  /\ closed = <<>>
  /\ total = 0

\* the caller encodes its bytes and keeps the string
Base64Encode ==
  /\ scenario = "base64" /\ b64.op = "new" /\ b64.from = "bytes"
  /\ LET encoded == base64_encode(b64.kind, b64.bytes)
     IN  /\ b64' = [b64 EXCEPT !.op = "encode", !.text = encoded]
         /\ ret' = On(Ret("encode", TRUE, "", -1, encoded), "b64")
  /\ UNCHANGED <<scenario, ecb, cbcEnc, cbcDec, buffered, readable, written,
                 closed, made, total>>

\* the caller decodes the string it holds
Base64Decode ==
  /\ scenario = "base64"
  /\ b64.op = "encode" \/ (b64.op = "new" /\ b64.from = "text")
  /\ b64' = [b64 EXCEPT !.op = "decode"]
  /\ ret' = On(base64_decode(b64.kind, b64.text), "b64")
  /\ UNCHANGED <<scenario, ecb, cbcEnc, cbcDec, buffered, readable, written,
                 closed, made, total>>

NextBase64 == Base64Encode \/ Base64Decode

SpecBase64 == InitBase64 /\ [][NextBase64]_vars

\* ================================================================ claims

\* the stream the last ECB finalize was called on
EcbStream == IF ret.ok THEN closed ELSE written.ecb

\* the i-th B-byte block of a byte sequence, as an array
BlockOf(s, i) == [k \in 1..B |-> s[(i - 1) * B + k]]

\* the primitive applied to each complete block of s, in order
RECURSIVE EcbReference(_, _)
EcbReference(p, s) ==
  IF Len(s) < B THEN <<>>
  ELSE PrimMutate(p, BlockOf(s, 1)) \o EcbReference(p, SubSeq(s, B + 1, Len(s)))

\* C1: an ECB finalize called while the working buffer holds f bytes,
\* 0 < f < B, returns Err(IncompleteBlock(B - f)); in terms of the bytes
\* written, a stream of T bytes with T mod B # 0 fails with
\* IncompleteBlock(B - T mod B).
C1_EcbIncompleteBlock ==
  /\ [](scenario = "ecb" /\ ret.op = "finalize" /\ Len(EcbStream) % B # 0
          => /\ ~ret.ok
             /\ ret.err = "IncompleteBlock"
             /\ ret.val = B - (Len(EcbStream) % B))
  /\ [][scenario = "ecb" /\ ret'.op = "finalize"
          /\ 0 < ecb.buffer.len /\ ecb.buffer.len < B
          => /\ ~ret'.ok
             /\ ret'.err = "IncompleteBlock"
             /\ ret'.val = B - ecb.buffer.len]_vars

\* B - 1 bytes written in total, finalize failed with IncompleteBlock(1)
C1_Witness ==
  /\ scenario = "ecb" /\ ret.op = "finalize" /\ ~ret.ok
  /\ Len(written.ecb) = B - 1 /\ ecb.buffer.len = B - 1
  /\ ret.err = "IncompleteBlock" /\ ret.val = 1

\* C2: an ECB finalize after zero bytes written in total returns Ok with
\* empty output, and IncompleteBlock is returned only for a fill f with
\* 0 < f < B.
C2_EcbEmptyFinalizeOk ==
  scenario = "ecb" /\ ret.op = "finalize"
    => /\ total = 0 => ret.ok /\ ret.out = <<>>
       /\ ~ret.ok => 0 < ecb.buffer.len /\ ecb.buffer.len < B

\* C3: a streaming CBC finalize after a number of bytes that is no multiple
\* of B fails with IncompleteBlock(B - f) and hands over no output.
C3_CbcFinalizeIncomplete ==
  ret.op = "finalize" /\ ret.on \in {"enc", "dec"}
    => LET T == Len(written[ret.on])
       IN  T % B # 0 => /\ ~ret.ok
                        /\ ret.err = "IncompleteBlock"
                        /\ ret.val = B - (T % B)
                        /\ ret.out = <<>>

\* C4: CBC round trip.  When a block-aligned plaintext was written to
\* CbcEncryption(K, IV) and finalized, and all of the ciphertext was written
\* to CbcDecryption(K, IV) and finalized, the output is the plaintext.
C4_CbcRoundTrip ==
  /\ scenario = "cbc" /\ ret.on = "dec" /\ ret.op = "finalize"
  /\ readable.some /\ written.dec = readable.data
  /\ Len(written.enc) % B = 0
  => ret.ok /\ ret.out = written.enc

\* a plaintext of two blocks has made the round trip
C4_Witness ==
  /\ scenario = "cbc" /\ ret.on = "dec" /\ ret.op = "finalize"
  /\ readable.some /\ written.dec = readable.data
  /\ Len(written.enc) = 2 * B
  /\ ret.out = written.enc

\* C5: an ECB finalize on a stream of n*B bytes, n >= 1, returns Ok with
\* the n*B bytes that are the primitive applied to each input block, in
\* input order.
C5_EcbBlockwise ==
  /\ scenario = "ecb" /\ ret.op = "finalize"
  /\ Len(EcbStream) >= B /\ Len(EcbStream) % B = 0
  => /\ ret.ok
     /\ Len(ret.out) = Len(EcbStream)
     /\ ret.out = EcbReference(ecb.primitive, EcbStream)

\* two identical input blocks gave two identical output blocks
C5_Witness ==
  /\ scenario = "ecb" /\ ret.op = "finalize" /\ ret.ok
  /\ Len(closed) = 2 * B
  /\ BlockOf(closed, 1) = BlockOf(closed, 2)
  /\ Len(ret.out) = 2 * B
  /\ BlockOf(ret.out, 1) = BlockOf(ret.out, 2)

\* the engine a fresh construction and one write of all of s would give
EcbOneWrite(s) == Ecb_write(Ecb_new(ecb.primitive.dir, made.key), s).self
CbcOneWrite(dir, s) == Cbc_write(Cbc_new(dir, made.key, made.iv), s).self
BufferedOneWrite(from, s) == Buffered_write(from, s).self

\* C6: write-partition independence.  However the bytes of a stream were
\* split into write calls, each engine is in the state that one write of
\* the concatenated bytes gives (working buffer and fill, IV, output
\* accumulator), and finalize returns what it returns there.
C6_PartitionIndependent ==
  /\ scenario = "ecb" => ecb = EcbOneWrite(written.ecb)
  /\ scenario = "ecb" /\ ret.op = "finalize"
       => ret = On(Ecb_finalize(EcbOneWrite(EcbStream)).ret, "ecb")
  /\ scenario = "cbc" /\ cbcEnc.alive => cbcEnc = CbcOneWrite("enc", written.enc)
  /\ scenario \in {"cbc", "cbcDec"} /\ cbcDec.alive
       => cbcDec = CbcOneWrite("dec", written.dec)
  /\ ret.op = "finalize" /\ ret.on \in {"enc", "dec"}
       => ret = On(Cbc_finalize(CbcOneWrite(ret.on, written[ret.on])).ret, ret.on)
  /\ scenario = "buffered" /\ buffered.alive
       => buffered = BufferedOneWrite(made.start, written.buf)
  /\ scenario = "buffered" /\ ret.op = "finalize"
       => ret = On(Buffered_finalize(BufferedOneWrite(made.start, closed)).ret, "buf")

\* two blocks went into a CbcEncryption in writes that were not
\* block-aligned: the last write was the one byte that completed block two
C6_Witness ==
  /\ scenario = "cbc" /\ cbcEnc.alive
  /\ ret.on = "enc" /\ ret.op = "write" /\ ret.len = 1
  /\ Len(written.enc) = 2 * B /\ Len(cbcEnc.out) = 2 * B

\* C7: every write terminates and returns Ok(n) with n = buf.len(), and
\* push_slice is never called on a full buffer.
C7_WriteConsumesAll ==
  ret.op = "write"
    => /\ ~ret.diverged /\ ret.ok
       /\ ret.val = ret.len
       /\ ~ret.pushFull

\* an ECB write of B bytes that began on a full buffer
C7_Witness ==
  /\ scenario = "ecb" /\ ret.op = "write"
  /\ ret.len = B /\ ret.val = B
  /\ Len(written.ecb) = 2 * B /\ Len(ecb.out) = B

\* C8: a streaming CBC flush returns Ok when the bytes written so far are
\* block-aligned and Err(UnexpectedEof, IncompleteBlock(missing)) when a
\* partial block is buffered, and changes no engine state.
C8_CbcFlushAlignment ==
  /\ [](ret.op = "flush" /\ ret.on \in {"enc", "dec"}
          => LET T == Len(written[ret.on])
             IN  IF T % B = 0 THEN ret.ok
                 ELSE /\ ~ret.ok
                      /\ ret.err = "UnexpectedEof:IncompleteBlock"
                      /\ ret.val = B - (T % B))
  /\ [][ret'.op = "flush" => cbcEnc' = cbcEnc /\ cbcDec' = cbcDec]_vars

\* C9: missing() returns Some(B - f) for a fill f with 0 < f < B and None
\* for an empty or full buffer, and leaves the adapter as it was.
C9_BufferedMissing ==
  [][scenario = "buffered" /\ ret'.op = "missing"
       => /\ buffered' = buffered
          /\ ret'.val = IF 0 < buffered.buffer.len /\ buffered.buffer.len < B
                        THEN B - buffered.buffer.len ELSE -1]_vars

\* missing() on a buffer holding one byte
C9_Witness ==
  /\ scenario = "buffered" /\ ret.op = "missing"
  /\ buffered.buffer.len = 1 /\ ret.val = B - 1

\* C10: finalize_and_reset returns the output accumulated since
\* construction or the previous reset and leaves buffer and out empty, and
\* what a stream gives equals what a freshly constructed adapter over the
\* same key (and IV) gives for that stream.
C10_BufferedReuse ==
  scenario = "buffered" /\ ret.op \in {"finalize", "finalize_and_reset"}
    => /\ ret.op = "finalize_and_reset"
            => buffered.buffer = FB_new /\ buffered.out = <<>>
       /\ ret.out = BufferedOneWrite(made.adapter, closed).out

\* C11: an adapter finalize (or finalize_and_reset) called while the
\* working buffer holds f bytes, 0 < f < B, reports IncompleteBlock and
\* returns no output.
C11_BufferedFinalizeIncomplete ==
  scenario = "buffered" /\ ret.op \in {"finalize", "finalize_and_reset"}
    /\ Len(closed) % B # 0
    => /\ ~ret.ok
       /\ ret.err = "IncompleteBlock"
       /\ ret.val = B - (Len(closed) % B)

\* the stream s with its i-th block replaced by the block x
AlterBlock(s, i, x) ==
  [k \in 1..Len(s) |-> IF (i - 1) * B < k /\ k <= i * B
                       THEN x[k - (i - 1) * B] ELSE s[k]]

\* what a CbcDecryption with the key and IV of this run returns for s
CbcDecryptionOf(s) == Cbc_finalize(CbcOneWrite("dec", s)).ret.out

\* C12: when ciphertext block i is altered and the original and the
\* altered ciphertext are both run through CbcDecryption with the same key
\* and IV, the two plaintexts have the same length and are identical in
\* every block j < i and every block j > i + 1.
C12_CbcDiffusion ==
  scenario = "decBlocks" /\ ret.op = "finalize"
    => \A i \in 1..(Len(written.dec) \div B) : \A x \in Blocks :
         LET other == CbcDecryptionOf(AlterBlock(written.dec, i, x))
         IN  /\ Len(other) = Len(ret.out)
             /\ \A j \in 1..(Len(ret.out) \div B) :
                  j < i \/ j > i + 1
                    => BlockOf(other, j) = BlockOf(ret.out, j)

\* three blocks decrypted; altering the first changes the plaintext blocks
\* 1 and 2 and leaves block 3 as it was
C12_Witness ==
  /\ scenario = "decBlocks" /\ ret.op = "finalize"
  /\ Len(written.dec) = 3 * B /\ Len(ret.out) = 3 * B
  /\ \E x \in Blocks :
       LET other == CbcDecryptionOf(AlterBlock(written.dec, 1, x))
       IN  /\ BlockOf(other, 1) # BlockOf(ret.out, 1)
           /\ BlockOf(other, 2) # BlockOf(ret.out, 2)
           /\ BlockOf(other, 3) = BlockOf(ret.out, 3)

\* the value block i of the ciphertext c was chained with: the IV for the
\* first block, the previous ciphertext block after that
ChainedWith(c, i) == IF i = 1 THEN made.iv ELSE BlockOf(c, i - 1)

\* C13 (as stated): under CBC encryption two consecutive identical
\* plaintext blocks P, P produce two different ciphertext blocks, for every
\* key, every IV and every block value P.
C13_CbcRepeatedBlocksDiffer ==
  scenario = "encBlocks" /\ ret.op = "finalize"
    => \A i \in 1..((Len(ret.out) \div B) - 1) :
         BlockOf(written.enc, i) = BlockOf(written.enc, i + 1)
           => BlockOf(ret.out, i) # BlockOf(ret.out, i + 1)

\* C13 (amended): two consecutive identical plaintext blocks produce two
\* different ciphertext blocks unless the first of them encrypts to the
\* very value it was chained with (the IV, or the ciphertext block before
\* it); in that case the two ciphertext blocks are equal.
C13_CbcRepeatedBlocks ==
  scenario = "encBlocks" /\ ret.op = "finalize"
    => \A i \in 1..((Len(ret.out) \div B) - 1) :
         BlockOf(written.enc, i) = BlockOf(written.enc, i + 1)
           => (BlockOf(ret.out, i) = BlockOf(ret.out, i + 1)
                 <=> BlockOf(ret.out, i) = ChainedWith(ret.out, i))

\* a plaintext of three blocks whose last two are the same block and whose
\* last two ciphertext blocks differ
C13_Witness ==
  /\ scenario = "encBlocks" /\ ret.op = "finalize"
  /\ Len(ret.out) = 3 * B
  /\ BlockOf(written.enc, 2) = BlockOf(written.enc, 3)
  /\ BlockOf(written.enc, 1) # BlockOf(written.enc, 2)
  /\ BlockOf(ret.out, 2) # BlockOf(ret.out, 3)

\* what finalize returns after s is written to the ECB engine as it is now
EcbFinalizeAfter(s) == Ecb_finalize(Ecb_write(ecb, s).self).ret

\* C14: a failed ECB finalize is recoverable: when finalize returns
\* Err(IncompleteBlock(m)) the working buffer and the output accumulator
\* are left exactly as they were, and writing exactly m further bytes
\* followed by finalize succeeds with the transform of the whole input
\* written so far.
C14_EcbFinalizeRecoverable ==
  /\ [][scenario = "ecb" /\ ret'.op = "finalize" /\ ~ret'.ok
          => ecb' = ecb]_vars
  /\ [](scenario = "ecb" /\ ret.op = "finalize" /\ ~ret.ok
          => /\ ret.err = "IncompleteBlock"
             /\ \A s \in SeqsOfLen(ret.val) :
                  /\ EcbFinalizeAfter(s).ok
                  /\ EcbFinalizeAfter(s).out
                       = EcbReference(ecb.primitive, written.ecb \o s))

\* B + 1 bytes written, finalize failed with IncompleteBlock(B - 1); one
\* block is in out, one byte in the buffer, and B - 1 further bytes give
\* an output of two blocks
C14_Witness ==
  /\ scenario = "ecb" /\ ret.op = "finalize" /\ ~ret.ok
  /\ Len(written.ecb) = B + 1 /\ ret.val = B - 1
  /\ Len(ecb.out) = B /\ ecb.buffer.len = 1
  /\ \E s \in SeqsOfLen(ret.val) :
       EcbFinalizeAfter(s).ok /\ Len(EcbFinalizeAfter(s).out) = 2 * B

\* C15: a successful ECB finalize returns the whole output accumulator
\* (with the last block transformed) and clears the engine: out and buffer
\* are empty afterwards, as in an engine freshly constructed with the same
\* key, so the output of a later finalize holds the transform of the later
\* stream only.
C15_EcbFinalizeClears ==
  /\ [][scenario = "ecb" /\ ret'.op = "finalize" /\ ret'.ok
          => /\ ret'.out = ecb.out \o PrimMutate(ecb.primitive, ecb.buffer.buf)
             /\ ecb' = Ecb_new(ecb.primitive.dir, made.key)]_vars
  /\ [](scenario = "ecb" /\ ret.op = "finalize" /\ ret.ok
          => /\ ecb.out = <<>> /\ FB_is_empty(ecb.buffer)
             /\ ret.out = EcbReference(ecb.primitive, closed))

\* the second stream of an engine: one block written after an earlier
\* stream of one block was finalized, and finalize returned one block
C15_Witness ==
  /\ scenario = "ecb" /\ ret.op = "finalize" /\ ret.ok
  /\ Len(closed) = B /\ total = 2 * B
  /\ Len(ret.out) = B

\* the first min(Len(iv), B) bytes of the slice iv followed by zeros
PadIV(iv) == [i \in 1..B |-> IF i <= Len(iv) THEN iv[i] ELSE 0]

\* C16: for an IV slice of length L handed to new, the chaining value of
\* the first block is the B-byte value made of the first min(L, B) bytes
\* of the slice followed by zeros: bytes beyond B are ignored and a short
\* slice never makes the chaining value shorter than B.
C16_CbcIvConstruction ==
  /\ scenario = "cbc" /\ cbcEnc.alive /\ cbcEnc.out = <<>>
       => FB_as_ref(cbcEnc.iv) = PadIV(made.iv)
  /\ scenario \in {"cbc", "cbcDec"} /\ cbcDec.alive /\ cbcDec.out = <<>>
       => FB_as_ref(cbcDec.iv) = PadIV(made.iv)
  /\ scenario = "cbc" /\ Len(cbcEnc.out) >= B
       => BlockOf(cbcEnc.out, 1)
            = PrimEncryptBlock(made.key,
                xor_buffers(BlockOf(written.enc, 1), PadIV(made.iv)))
  /\ scenario \in {"cbc", "cbcDec"} /\ Len(cbcDec.out) >= B
       => BlockOf(cbcDec.out, 1)
            = xor_buffers(PrimDecryptBlock(made.key, BlockOf(written.dec, 1)),
                          PadIV(made.iv))

\* an encryption engine made with a one-byte IV slice has encrypted its
\* first block
C16_Witness ==
  /\ scenario = "cbc" /\ Len(made.iv) = 1
  /\ Len(cbcEnc.out) >= B

\* a decryption engine made with an IV slice of B + 1 bytes has decrypted
\* its first block
C16_WitnessLong ==
  /\ scenario = "cbcDec" /\ Len(made.iv) = B + 1
  /\ Len(cbcDec.out) >= B

\* the number of PADDING chars at the end of a string
RECURSIVE TrailingPadding(_)
TrailingPadding(string) ==
  IF string # <<>> /\ string[Len(string)] = PADDING
  THEN 1 + TrailingPadding(SubSeq(string, 1, Len(string) - 1))
  ELSE 0

\* C17: for either alphabet and every byte sequence b (of length 0, 1 or 2
\* modulo 3, the empty one included) encode(b) has a length that is a
\* multiple of 4 and ends in 0, 2 or 1 PADDING chars respectively, and
\* decode(encode(b)) = Ok(b).
C17_Base64RoundTrip ==
  /\ scenario = "base64" /\ b64.from = "bytes" /\ b64.op \in {"encode", "decode"}
       => /\ Len(b64.text) % 4 = 0 /\ StrLen(b64.text) % 4 = 0
          /\ TrailingPadding(b64.text)
               = CASE Len(b64.bytes) % 3 = 0 -> 0
                   [] Len(b64.bytes) % 3 = 1 -> 2
                   [] Len(b64.bytes) % 3 = 2 -> 1
  /\ scenario = "base64" /\ b64.from = "bytes" /\ b64.op = "decode"
       => ret.ok /\ ret.out = b64.bytes

\* four bytes went through the UrlSafe alphabet and came back: one whole
\* chunk and a remainder of one byte, with the chars of the indices 62 and
\* 63 in the string
C17_Witness ==
  /\ scenario = "base64" /\ b64.from = "bytes" /\ b64.op = "decode"
  /\ b64.kind = "UrlSafe" /\ Len(b64.bytes) = 4
  /\ \E i \in 1..Len(b64.text) : b64.text[i] = 45
  /\ \E i \in 1..Len(b64.text) : b64.text[i] = 95
  /\ TrailingPadding(b64.text) = 2
  /\ ret.ok /\ ret.out = b64.bytes

\* c is one of the 64 chars of the table of the kind
InAlphabet(kind, c) == \E ix \in 0..63 : value_at(kind, ix) = c

\* the string with every char outside the alphabet of the kind removed
RECURSIVE Strip(_, _)
Strip(kind, string) ==
  IF string = <<>> THEN <<>>
  ELSE (IF InAlphabet(kind, Head(string)) THEN <<Head(string)>> ELSE <<>>)
         \o Strip(kind, Tail(string))

\* C18 (as stated): decode ignores invalid chars: for any string s and the
\* string s' obtained from it by removing every char outside the chosen
\* alphabet, decode(s) and decode(s') give the same result, the same bytes
\* or the same failure.
C18_DecodeIgnoresInvalid ==
  scenario = "base64" /\ b64.from = "text" /\ b64.op = "decode"
    => ret = On(base64_decode(b64.kind, Strip(b64.kind, b64.text)), "b64")

\* C18 (amended): for any string s and the string s' obtained from it by
\* removing every char outside the chosen alphabet, decode(s) and
\* decode(s') give the same result provided the lengths of s and of s' are
\* both multiples of 4.
C18_DecodeIgnoresInvalidAligned ==
  /\ scenario = "base64" /\ b64.from = "text" /\ b64.op = "decode"
  /\ StrLen(b64.text) % 4 = 0
  /\ StrLen(Strip(b64.kind, b64.text)) % 4 = 0
  => ret = On(base64_decode(b64.kind, Strip(b64.kind, b64.text)), "b64")

\* a string with chars outside the alphabet whose stripped form is four
\* chars long was decoded to three bytes
C18_Witness ==
  /\ scenario = "base64" /\ b64.from = "text" /\ b64.op = "decode"
  /\ StrLen(b64.text) % 4 = 0
  /\ Len(Strip(b64.kind, b64.text)) = 4
  /\ Strip(b64.kind, b64.text) # b64.text
  /\ ret.ok /\ Len(ret.out) = 3

\* C19: decode fails with InvalidInputLength(len) exactly when the length
\* of the input string is not a multiple of 4 (checked before filtering);
\* otherwise it fails with InvalidFormat(r) exactly when the number of
\* alphabet chars left after filtering has the remainder r = 1 modulo 4;
\* in every other case it returns Ok.
C19_DecodeErrors ==
  scenario = "base64" /\ b64.op = "decode"
    => LET len   == StrLen(b64.text)
           count == Len(Strip(b64.kind, b64.text))
       IN  /\ len % 4 # 0
                => ~ret.ok /\ ret.err = "InvalidInputLength" /\ ret.val = len
           /\ len % 4 = 0 /\ count % 4 = 1
                => ~ret.ok /\ ret.err = "InvalidFormat" /\ ret.val = 1
           /\ len % 4 = 0 /\ count % 4 # 1 => ret.ok

\* a string of length 4 of which one char is in the alphabet was rejected
\* with InvalidFormat(1)
C19_Witness ==
  /\ scenario = "base64" /\ b64.from = "text" /\ b64.op = "decode"
  /\ StrLen(b64.text) = 4 /\ Len(Strip(b64.kind, b64.text)) = 1
  /\ ~ret.ok /\ ret.err = "InvalidFormat" /\ ret.val = 1

\* C20 (as stated): after every write call returns on an ECB engine every
\* block that has become full has already been transformed and appended:
\* with T total bytes written, out holds exactly floor(T / B) transformed
\* blocks and the working buffer holds T mod B bytes, never a full,
\* untransformed block.
C20_EcbImmediate ==
  scenario = "ecb" /\ ret.op = "write"
    => LET T == Len(written.ecb)
       IN  /\ Len(ecb.out) = B * (T \div B)
           /\ ecb.buffer.len = T % B
           /\ ~FB_is_full(ecb.buffer)

\* the blocks out holds when T > 0 bytes were written: all but the last
\* block begun
BlocksDone(T) == (T - 1) \div B

\* C20 (amended): after every write call returns on an ECB engine every
\* block that has become full, except the one written last, has been
\* transformed and appended: with T > 0 total bytes written, out holds
\* exactly ceil(T / B) - 1 transformed blocks and the working buffer holds
\* the remaining T - B * (ceil(T / B) - 1) bytes, between 1 and B of them;
\* a full block stays in the buffer, untransformed, until the next
\* non-empty write or finalize.  With T = 0 both are empty.
C20_EcbLazy ==
  scenario = "ecb" /\ ret.op = "write"
    => LET T == Len(written.ecb)
       IN  IF T = 0
           THEN ecb.out = <<>> /\ FB_is_empty(ecb.buffer)
           ELSE /\ ecb.out = EcbReference(ecb.primitive,
                                          SubSeq(written.ecb, 1, B * BlocksDone(T)))
                /\ Len(ecb.out) = B * BlocksDone(T)
                /\ ecb.buffer.len = T - B * BlocksDone(T)
                /\ \A k \in 1..ecb.buffer.len :
                     ecb.buffer.buf[k] = written.ecb[B * BlocksDone(T) + k]

\* two blocks written: the first is in out, transformed, the second fills
\* the buffer
C20_Witness ==
  /\ scenario = "ecb" /\ ret.op = "write"
  /\ Len(written.ecb) = 2 * B
  /\ Len(ecb.out) = B /\ FB_is_full(ecb.buffer)

\* the last B bytes of a byte sequence of at least B bytes, as an array
LastBlock(s) == [k \in 1..B |-> s[Len(s) - B + k]]

\* CBC encryption of the complete blocks of s, in order, chained from v:
\* C_i = E(P_i XOR C_(i-1)), C_0 = v
RECURSIVE CbcEncReference(_, _, _)
CbcEncReference(key, v, s) ==
  IF Len(s) < B THEN <<>>
  ELSE LET c == PrimEncryptBlock(key, xor_buffers(BlockOf(s, 1), v))
       IN  c \o CbcEncReference(key, c, SubSeq(s, B + 1, Len(s)))

\* the chaining value after the output c, for a chain begun with v
ChainAfter(v, c) == IF c = <<>> THEN v ELSE LastBlock(c)

\* C21: CBC encryption chaining order: the ciphertext emitted for the i-th
\* completed plaintext block is C_i = E(P_i XOR C_(i-1)) with C_0 = IV,
\* blocks are processed in arrival order, and between any two operations
\* the IV buffer equals the last B bytes appended to the output
\* accumulator, or the initial IV while the output is empty.  For the
\* single-block transform, driven through the adapter, the chain of a
\* stream begins with the value the transform holds when the stream begins.
C21_CbcEncChaining ==
  /\ scenario = "cbc"
       => /\ cbcEnc.out = CbcEncReference(made.key, PadIV(made.iv), written.enc)
          /\ FB_as_ref(cbcEnc.iv) = ChainAfter(PadIV(made.iv), cbcEnc.out)
  /\ scenario = "buffered" /\ buffered.alive
     /\ buffered.cipher.mode = "cbc" /\ buffered.cipher.primitive.dir = "enc"
       => /\ buffered.out
               = CbcEncReference(made.key, made.start.cipher.iv, written.buf)
          /\ buffered.cipher.iv
               = ChainAfter(made.start.cipher.iv, buffered.out)

\* a CbcEncryption has encrypted two different blocks, the second completed
\* by a write of one byte, and holds the second ciphertext block as IV
C21_Witness ==
  /\ scenario = "cbc" /\ cbcEnc.alive
  /\ ret.on = "enc" /\ ret.op = "write" /\ ret.len = 1
  /\ Len(cbcEnc.out) = 2 * B
  /\ BlockOf(written.enc, 1) # BlockOf(written.enc, 2)
  /\ FB_as_ref(cbcEnc.iv) = BlockOf(cbcEnc.out, 2)
  /\ FB_as_ref(cbcEnc.iv) # PadIV(made.iv)

\* CBC decryption of the complete blocks of s, in order, chained from v:
\* P_i = D(C_i) XOR C_(i-1), C_0 = v
RECURSIVE CbcDecReference(_, _, _)
CbcDecReference(key, v, s) ==
  IF Len(s) < B THEN <<>>
  ELSE xor_buffers(PrimDecryptBlock(key, BlockOf(s, 1)), v)
         \o CbcDecReference(key, BlockOf(s, 1), SubSeq(s, B + 1, Len(s)))

\* the most recent complete block of the input s, or v if there is none
LastInputBlock(v, s) ==
  IF Len(s) < B THEN v ELSE BlockOf(s, Len(s) \div B)

\* C22: CBC decryption captures before it decrypts: for every completed
\* ciphertext block C_i the plaintext is P_i = D(C_i) XOR C_(i-1) with
\* C_0 = IV, and between any two operations the IV buffer equals the most
\* recent complete ciphertext input block, never a decrypted block, or the
\* initial IV if no block has completed.  For the single-block transform,
\* driven through the adapter, the chain of a stream begins with the value
\* the transform holds when the stream begins.
C22_CbcDecCapture ==
  /\ scenario \in {"cbc", "cbcDec"}
       => /\ cbcDec.out = CbcDecReference(made.key, PadIV(made.iv), written.dec)
          /\ FB_as_ref(cbcDec.iv) = LastInputBlock(PadIV(made.iv), written.dec)
  /\ scenario = "buffered" /\ buffered.alive
     /\ buffered.cipher.mode = "cbc" /\ buffered.cipher.primitive.dir = "dec"
       => /\ buffered.out
               = CbcDecReference(made.key, made.start.cipher.iv, written.buf)
          /\ buffered.cipher.iv
               = LastInputBlock(made.start.cipher.iv, written.buf)

\* a CbcDecryption has decrypted two blocks of the caller's; it holds the
\* second ciphertext block as IV, which is not what that block decrypted to
C22_Witness ==
  /\ scenario = "cbcDec" /\ cbcDec.alive
  /\ ret.on = "dec" /\ ret.op = "write"
  /\ Len(written.dec) = 2 * B /\ Len(cbcDec.out) = 2 * B
  /\ FB_as_ref(cbcDec.iv) = BlockOf(written.dec, 2)
  /\ FB_as_ref(cbcDec.iv) # BlockOf(cbcDec.out, 2)

\* C23: the two CBC encodings are equivalent: for the same primitive, key
\* and B-byte IV and any sequence of write calls, the single-block CBC
\* transform driven through the Buffered Adapter and the streaming CBC
\* engine hold the same chaining value and the same output accumulator
\* after every write, and return the same bytes on finalize.
C23_CbcEquivalent ==
  /\ scenario = "both" /\ buffered.alive
       => /\ buffered.cipher.iv = FB_as_ref(Streaming.iv)
          /\ buffered.out = Streaming.out
  /\ scenario = "both" /\ ret.op = "finalize"
       => readable.some /\ ret.out = readable.data

\* both decrypted two blocks, the second completed by a write of one byte
C23_Witness ==
  /\ scenario = "both" /\ buffered.alive
  /\ buffered.cipher.primitive.dir = "dec"
  /\ ret.op = "write" /\ ret.len = 1
  /\ Len(written.buf) = 2 * B
  /\ Len(buffered.out) = 2 * B /\ Len(cbcDec.out) = 2 * B
  /\ BlockOf(buffered.out, 1) # BlockOf(buffered.out, 2)

\* both encrypted two blocks and were finalized
C23_WitnessFinalize ==
  /\ scenario = "both" /\ ret.op = "finalize"
  /\ buffered.cipher.primitive.dir = "enc"
  /\ Len(ret.out) = 2 * B /\ readable.data = ret.out

====
